---- MODULE Spec2Model ----
(***************************************************************************)
(* rtop: remote system monitoring over ssh.                                *)
(*                                                                         *)
(* A Go string is modelled as a sequence of one-character strings, so that *)
(* strconv.ParseUint, strings.Index, strings.TrimSpace, strings.TrimSuffix *)
(* and path.Match are computed on the characters as the library computes   *)
(* them.  The output of a remote command is modelled after bufio.Scanner   *)
(* and strings.Fields have split it: a sequence of lines, each a sequence  *)
(* of fields.  A Go map is a TLA+ function; a nil map reads as the empty   *)
(* function.                                                               *)
(***************************************************************************)
EXTENDS Integers, Sequences, FiniteSets, TLC

VARIABLES
    \* ---- Client.GetStats (pkg/client/client.go) --------------------------
    workers,      \* Client.workers, the size of the semaphore
    remote,       \* what the remote host answers to the two network commands
    pc,           \* position of the goroutine that called GetStats
    next,         \* index (1..8) of the next s.Go call of GetStats
    st,           \* per probe: "pending", "primary", "fallback", "ok", "fail", "skipped"
    sem,          \* semgroup's weighted semaphore: slots acquired
    wg,           \* semgroup's sync.WaitGroup counter
    errs,         \* semgroup's collected errors, as a set of [probe, kind]
    loc,          \* the eight local variables the closures assign
    produced,     \* history: the value each successful probe function returned
    stats,        \* the types.Stats returned by GetStats
    err,          \* the error returned by GetStats: "nil" or "multi"
    \* ---- types.MergeNetInterfaces applied on its own --------------------
    mAddr, mDev, mOut, mDone,
    \* ---- client.New and ssh.NewClient (internal/ssh/client.go) ----------
    env,          \* the arguments and the environment of the connection attempt
    ncPc,         \* position in NewClient and its caller
    ncPort,       \* the local variable port of NewClient
    auths,        \* the local slice auths of NewClient
    ncClient,     \* the *ssh.Client value NewClient returns ("nil" when nil)
    ncErr,        \* the error NewClient returns
    exitedBy,     \* the function that called os.Exit, "none" while running
    \* ---- run, GetSshConfig, GetSshEntry (cmd, internal/ssh/config.go) ---
    args,         \* the command line and the files of the home directory
    HostInfo,     \* the alias table ParseSshConfig leaves
    rPc,          \* position in run
    parsed,       \* username, host, port as parseAddrAsUserHostAddrPort returned them
    entry,        \* what GetSshEntry returned, when GetSshConfig called it
    sres,         \* shost, sport, suser, skeyPath as GetSshConfig returned them
    opts,         \* the options run passes to client.New
    \* ---- the probe parsers and MemInfo.Used applied on their own ---------
    pKind,        \* the function applied: "mem", "cpu", "fs", "layouts", "load", ...
    pIn,          \* its input: the output of the remote command
    pOut,         \* what it returned
    pDone,        \* it has been applied
    \* ---- GetSshEntry called repeatedly on one table ----------------------
    eTable,       \* the alias table
    eName,        \* the alias looked up
    eRuns,        \* the values the successive calls returned
    \* ---- the dashboard (internal/tui/render.go) over bubbletea -----------
    rendering,    \* the Rendering model: stats, ready, viewport
    program,      \* the tea.Program: running, the pending tick, what Update was given
    hostState,    \* the state of the remote host, which changes over time
    \* ---- readPass (internal/ssh/client.go) -------------------------------
    rpPc,         \* position of the goroutine that called readPass
    sig,          \* the channel sig and its registration with signal.Notify
    handler,      \* the goroutine readPass starts
    term          \* the terminal: echo state, and the process exit

statsVars == <<workers, remote, pc, next, st, sem, wg, errs, loc, produced, stats, err>>
mergeVars == <<mAddr, mDev, mOut, mDone>>
connVars == <<env, ncPc, ncPort, auths, ncClient, ncErr, exitedBy>>
runVars == <<args, HostInfo, rPc, parsed, entry, sres, opts>>
parseVars == <<pKind, pIn, pOut, pDone>>
entryVars == <<eTable, eName, eRuns>>
tuiVars == <<rendering, program, hostState>>
passVars == <<rpPc, sig, handler, term>>
auxVars == <<parseVars, entryVars, tuiVars, passVars>>
vars == <<statsVars, mergeVars, connVars, runVars, auxVars>>

(***************************************************************************)
(* Strings                                                                 *)
(***************************************************************************)
EmptyStr == << >>

Digits == <<"0", "1", "2", "3", "4", "5", "6", "7", "8", "9">>

IsDigit(c) == \E i \in 1..Len(Digits) : Digits[i] = c

DigitVal(c) == (CHOOSE i \in 1..Len(Digits) : Digits[i] = c) - 1

RECURSIVE DigitsValue(_)
DigitsValue(s) ==
    IF s = EmptyStr THEN 0
    ELSE DigitsValue(SubSeq(s, 1, Len(s) - 1)) * 10 + DigitVal(s[Len(s)])

\* strconv.ParseUint(s, 10, 64): a non-empty string of decimal digits, or an
\* error.  (The numerals of the model stay far below 2^64.)
ParseUint(s) ==
    IF s # EmptyStr /\ \A i \in 1..Len(s) : IsDigit(s[i])
    THEN [ok |-> TRUE, val |-> DigitsValue(s)]
    ELSE [ok |-> FALSE, val |-> 0]

\* strings.Index(s, c) for a one-character c: the 0-based index of its first
\* occurrence, or -1.
Index(s, c) ==
    IF \E i \in 1..Len(s) : s[i] = c
    THEN (CHOOSE i \in 1..Len(s) : s[i] = c /\ \A j \in 1..(i - 1) : s[j] # c) - 1
    ELSE -1

\* strconv.ParseFloat(s, 64) on the decimal forms "d+" and "d*.d*" (at least
\* one digit); the model keeps the whole seconds of the value.
ParseFloat(s) ==
    LET dot == Index(s, ".")
        whole == IF dot = -1 THEN s ELSE SubSeq(s, 1, dot)
        frac == IF dot = -1 THEN EmptyStr ELSE SubSeq(s, dot + 2, Len(s))
        digits == whole \o frac
    IN  IF digits # EmptyStr /\ \A i \in 1..Len(digits) : IsDigit(digits[i])
        THEN [ok |-> TRUE, val |-> DigitsValue(whole)]
        ELSE [ok |-> FALSE, val |-> 0]

IsSpace(c) == c \in {" ", "\t", "\n", "\r"}

\* strings.TrimSpace
RECURSIVE TrimSpace(_)
TrimSpace(s) ==
    IF s = EmptyStr THEN s
    ELSE IF IsSpace(s[1]) THEN TrimSpace(Tail(s))
    ELSE IF IsSpace(s[Len(s)]) THEN TrimSpace(SubSeq(s, 1, Len(s) - 1))
    ELSE s

\* strings.TrimSuffix(s, suffix)
TrimSuffix(s, suffix) ==
    IF Len(s) >= Len(suffix) /\ SubSeq(s, Len(s) - Len(suffix) + 1, Len(s)) = suffix
    THEN SubSeq(s, 1, Len(s) - Len(suffix))
    ELSE s

\* strings.Index(s, prefix) == 0
HasPrefix(s, prefix) ==
    Len(s) >= Len(prefix) /\ SubSeq(s, 1, Len(prefix)) = prefix

(***************************************************************************)
(* pkg/types                                                               *)
(***************************************************************************)
ZeroLoads ==
    [Load1 |-> EmptyStr, Load5 |-> EmptyStr, Load15 |-> EmptyStr,
     RunningProcs |-> EmptyStr, TotalProcs |-> EmptyStr]

ZeroMemInfo ==
    [Total |-> 0, Free |-> 0, Buffers |-> 0, Cached |-> 0, SwapTotal |-> 0, SwapFree |-> 0]

ZeroCPURaw ==
    [User |-> 0, Nice |-> 0, System |-> 0, Idle |-> 0, Iowait |-> 0, Irq |-> 0,
     SoftIrq |-> 0, Steal |-> 0, Guest |-> 0, Total |-> 0]

\* A float32 of CPUInfo is kept as the exact quotient num/den (times 100); a
\* zero denominator is the NaN (0/0) or infinity (x/0) the division yields.
Float(n) == [num |-> n, den |-> 1]

ZeroCPUInfo ==
    [User |-> Float(0), Nice |-> Float(0), System |-> Float(0), Idle |-> Float(0),
     IOWait |-> Float(0), IRQ |-> Float(0), SoftIRQ |-> Float(0), Steal |-> Float(0),
     Guest |-> Float(0)]

ZeroNetIPAddr == [IPv4 |-> EmptyStr, IPv6 |-> EmptyStr]

NilMap == << >>

\* types.MergeNetInterfaces: the keys of addr are traversed, and a key gets an
\* entry only when dev has it too ("if d, ok := dev[k]; ok").
MergeNetInterfaces(addr, dev) ==
    LET keys == DOMAIN addr
    IN  [k \in {x \in keys : x \in DOMAIN dev} |->
            [IPv4 |-> addr[k].IPv4, IPv6 |-> addr[k].IPv6,
             Rx |-> dev[k].Rx, Tx |-> dev[k].Tx]]

(***************************************************************************)
(* ssh.Client.Execute and the eight probe functions of pkg/client          *)
(*                                                                         *)
(* An Execute result is [ok, out]: ok = FALSE is a non-nil error (session  *)
(* failure or non-zero exit), out the captured standard output.  A probe   *)
(* function yields [val, err, panic]: panic = TRUE is Go's run-time panic  *)
(* "index out of range".                                                   *)
(***************************************************************************)
ExecFailed == [ok |-> FALSE, out |-> EmptyStr]

Executed(out) == [ok |-> TRUE, out |-> out]

Ret(val, e) == [val |-> val, err |-> e, panic |-> FALSE]

\* strings.Fields over a whole output: the fields of all its lines.
RECURSIVE Fields(_)
Fields(lines) == IF lines = << >> THEN << >> ELSE Head(lines) \o Fields(Tail(lines))

\* Client.GetUptime; the Duration is kept in whole seconds.
GetUptime(r) ==
    IF ~r.ok THEN Ret(0, "execute")
    ELSE LET parts == Fields(r.out)
         IN  IF Len(parts) = 2
             THEN LET upsecs == ParseFloat(parts[1])
                  IN  IF ~upsecs.ok THEN Ret(0, "parse") ELSE Ret(upsecs.val, "nil")
             ELSE Ret(0, "format")

\* Client.GetHostname: r is the result of "/bin/hostname -f", r2 that of the
\* fallback "/bin/hostname", which is run only when r failed.  The output is
\* the raw text.
GetHostname(r, r2) ==
    IF r.ok THEN Ret(TrimSpace(r.out), "nil")
    ELSE IF r2.ok THEN Ret(TrimSpace(r2.out), "nil")
    ELSE Ret(EmptyStr, "execute")

\* Client.GetLoad
GetLoad(r) ==
    IF ~r.ok THEN Ret(ZeroLoads, "execute")
    ELSE LET parts == Fields(r.out)
         IN  IF Len(parts) = 5
             THEN LET procs == parts[4]
                      i == Index(procs, "/")
                  IN  Ret([Load1 |-> parts[1], Load5 |-> parts[2], Load15 |-> parts[3],
                           RunningProcs |-> IF i # -1 THEN SubSeq(procs, 1, i) ELSE EmptyStr,
                           TotalProcs |-> IF i # -1 /\ i + 1 < Len(procs)
                                          THEN SubSeq(procs, i + 2, Len(procs))
                                          ELSE EmptyStr],
                          "nil")
             ELSE Ret(ZeroLoads, "format")

KeyMemTotal == <<"M", "e", "m", "T", "o", "t", "a", "l", ":">>
KeyMemFree == <<"M", "e", "m", "F", "r", "e", "e", ":">>
KeyBuffers == <<"B", "u", "f", "f", "e", "r", "s", ":">>
KeyCached == <<"C", "a", "c", "h", "e", "d", ":">>
KeySwapTotal == <<"S", "w", "a", "p", "T", "o", "t", "a", "l", ":">>
KeySwapFree == <<"S", "w", "a", "p", "F", "r", "e", "e", ":">>

\* One iteration of the scanner loop of GetMemInfo.
MemLine(res, parts) ==
    IF Len(parts) = 3
    THEN LET p == ParseUint(parts[2])
             val == p.val * 1024
         IN  IF ~p.ok THEN res
             ELSE IF parts[1] = KeyMemTotal THEN [res EXCEPT !.Total = val]
             ELSE IF parts[1] = KeyMemFree THEN [res EXCEPT !.Free = val]
             ELSE IF parts[1] = KeyBuffers THEN [res EXCEPT !.Buffers = val]
             ELSE IF parts[1] = KeyCached THEN [res EXCEPT !.Cached = val]
             ELSE IF parts[1] = KeySwapTotal THEN [res EXCEPT !.SwapTotal = val]
             ELSE IF parts[1] = KeySwapFree THEN [res EXCEPT !.SwapFree = val]
             ELSE res
    ELSE res

RECURSIVE MemScan(_, _)
MemScan(lines, res) ==
    IF lines = << >> THEN res ELSE MemScan(Tail(lines), MemLine(res, Head(lines)))

\* Client.GetMemInfo
GetMemInfo(r) ==
    IF ~r.ok THEN Ret(ZeroMemInfo, "execute") ELSE Ret(MemScan(r.out, ZeroMemInfo), "nil")

DevPrefix == <<"/", "d", "e", "v", "/">>

\* The scanner loop of GetFSInfos from the given line on: res is the slice built
\* so far, flag the column shift left by a device-only line.  parts[k] of the
\* code is parts[k + 1] here; an index past the fields is the panic.
RECURSIVE FSScan(_, _, _)
FSScan(lines, flag, res) ==
    IF lines = << >> THEN [val |-> res, err |-> "nil", panic |-> FALSE]
    ELSE LET parts == Head(lines)
             n == Len(parts)
             dev == n > 0 /\ HasPrefix(parts[1], DevPrefix)
             i == flag
         IN  IF n = 1 /\ dev THEN FSScan(Tail(lines), 1, res)
             ELSE IF n < 2 - i THEN [val |-> res, err |-> "nil", panic |-> TRUE]
             ELSE IF ~ParseUint(parts[2 - i]).ok THEN FSScan(Tail(lines), 0, res)
             ELSE IF n < 3 - i THEN [val |-> res, err |-> "nil", panic |-> TRUE]
             ELSE IF ~ParseUint(parts[3 - i]).ok THEN FSScan(Tail(lines), 0, res)
             ELSE IF n < 4 - i THEN [val |-> res, err |-> "nil", panic |-> TRUE]
             ELSE IF ~ParseUint(parts[4 - i]).ok THEN FSScan(Tail(lines), 0, res)
             ELSE IF n < 6 - i THEN [val |-> res, err |-> "nil", panic |-> TRUE]
             ELSE FSScan(Tail(lines), 0,
                         Append(res, [MountPoint |-> parts[6 - i],
                                      Total |-> ParseUint(parts[2 - i]).val,
                                      Used |-> ParseUint(parts[3 - i]).val,
                                      Free |-> ParseUint(parts[4 - i]).val]))

\* Client.GetFSInfos: r is the result of "/bin/df -B1", r2 that of the fallback
\* "/bin/df".  A nil slice and an empty one are both << >>.
GetFSInfos(r, r2) ==
    IF r.ok THEN FSScan(r.out, 0, << >>)
    ELSE IF r2.ok THEN FSScan(r2.out, 0, << >>)
    ELSE Ret(<< >>, "execute")

Inet == <<"i", "n", "e", "t">>
Inet6 == <<"i", "n", "e", "t", "6">>

\* One iteration of the scanner loop of GetNetIPAddrs.
IPAddrLine(res, parts) ==
    IF Len(parts) >= 4 /\ (parts[3] = Inet \/ parts[3] = Inet6)
    THEN LET ipv4 == parts[3] = Inet
             intfname == parts[2]
             old == IF intfname \in DOMAIN res THEN res[intfname] ELSE ZeroNetIPAddr
             info == IF ipv4 THEN [old EXCEPT !.IPv4 = parts[4]]
                     ELSE [old EXCEPT !.IPv6 = parts[4]]
         IN  [k \in DOMAIN res \cup {intfname} |-> IF k = intfname THEN info ELSE res[k]]
    ELSE res

RECURSIVE IPAddrScan(_, _)
IPAddrScan(lines, res) ==
    IF lines = << >> THEN res ELSE IPAddrScan(Tail(lines), IPAddrLine(res, Head(lines)))

\* Client.GetNetIPAddrs: r is the result of "/bin/ip -o addr", r2 that of the
\* fallback "/sbin/ip -o addr".
GetNetIPAddrs(r, r2) ==
    IF r.ok THEN Ret(IPAddrScan(r.out, NilMap), "nil")
    ELSE IF r2.ok THEN Ret(IPAddrScan(r2.out, NilMap), "nil")
    ELSE Ret(NilMap, "execute")

NetDevFields == 17

\* One iteration of the scanner loop of GetNetDevInfos.
NetDevLine(res, parts) ==
    IF Len(parts) = NetDevFields
    THEN LET intf == TrimSuffix(TrimSpace(parts[1]), <<":">>)
             rx == ParseUint(parts[2])
             tx == ParseUint(parts[10])
         IN  IF ~rx.ok \/ ~tx.ok THEN res
             ELSE [k \in DOMAIN res \cup {intf} |->
                      IF k = intf THEN [Rx |-> rx.val, Tx |-> tx.val] ELSE res[k]]
    ELSE res

RECURSIVE NetDevScan(_, _)
NetDevScan(lines, res) ==
    IF lines = << >> THEN res ELSE NetDevScan(Tail(lines), NetDevLine(res, Head(lines)))

\* Client.GetNetDevInfos
GetNetDevInfos(r) ==
    IF ~r.ok THEN Ret(NilMap, "execute") ELSE Ret(NetDevScan(r.out, NilMap), "nil")

KeyCpu == <<"c", "p", "u">>

\* parseCPUFields from field i (of the code, fields[i + 1] here) on.
RECURSIVE parseCPUFields(_, _, _)
parseCPUFields(cpu, fields, i) ==
    IF i >= Len(fields) THEN cpu
    ELSE LET p == ParseUint(fields[i + 1])
             val == p.val
             t == [cpu EXCEPT !.Total = @ + val]
         IN  IF ~p.ok THEN parseCPUFields(cpu, fields, i + 1)
             ELSE parseCPUFields(
                    CASE i = 1 -> [t EXCEPT !.User = val]
                      [] i = 2 -> [t EXCEPT !.Nice = val]
                      [] i = 3 -> [t EXCEPT !.System = val]
                      [] i = 4 -> [t EXCEPT !.Idle = val]
                      [] i = 5 -> [t EXCEPT !.Iowait = val]
                      [] i = 6 -> [t EXCEPT !.Irq = val]
                      [] i = 7 -> [t EXCEPT !.SoftIrq = val]
                      [] i = 8 -> [t EXCEPT !.Steal = val]
                      [] i = 9 -> [t EXCEPT !.Guest = val]
                      [] OTHER -> t,
                    fields, i + 1)

\* The scanner loop of GetCPU: the first line whose first field is "cpu".
RECURSIVE CPUScan(_)
CPUScan(lines) ==
    IF lines = << >> THEN ZeroCPURaw
    ELSE IF Len(Head(lines)) > 0 /\ Head(lines)[1] = KeyCpu
         THEN parseCPUFields(ZeroCPURaw, Head(lines), 1)
         ELSE CPUScan(Tail(lines))

\* float32(x) / total * 100
Percent(x, total) == [num |-> x * 100, den |-> total]

\* Client.GetCPU
GetCPU(r) ==
    IF ~r.ok THEN Ret(ZeroCPUInfo, "execute")
    ELSE LET nowCPU == CPUScan(r.out)
             total == nowCPU.Total
         IN  Ret([User |-> Percent(nowCPU.User, total), Nice |-> Percent(nowCPU.Nice, total),
                  System |-> Percent(nowCPU.System, total), Idle |-> Percent(nowCPU.Idle, total),
                  IOWait |-> Percent(nowCPU.Iowait, total), IRQ |-> Percent(nowCPU.Irq, total),
                  SoftIRQ |-> Percent(nowCPU.SoftIrq, total),
                  Steal |-> Percent(nowCPU.Steal, total),
                  Guest |-> Percent(nowCPU.Guest, total)],
                 "nil")

(***************************************************************************)
(* The remote host: what each command can print.                           *)
(***************************************************************************)
IfLo == <<"l", "o">>
IfEth == <<"e", "0">>
IfTun == <<"t", "0">>

\* A line of "ip -o addr" for interface intf, family fam and address a.
AddrLine(intf, fam, a) == <<<<"1", ":">>, intf, fam, a, <<"s", "c", "o", "p", "e">>>>

\* A line of /proc/net/dev for interface intf: 17 fields, received bytes in
\* field 1 and transmitted bytes in field 9.
DevLine(intf, rx, tx) ==
    <<intf \o <<":">>, rx>> \o [i \in 1..7 |-> <<"0">>] \o <<tx>> \o [i \in 1..7 |-> <<"0">>]

AddrOf(intf) == IF intf = IfLo THEN <<"1", "2", "7", ".", "1">> ELSE <<"1", "0", ".", "2">>

RECURSIVE SetToSeq(_)
SetToSeq(S) ==
    IF S = {} THEN << >> ELSE LET x == CHOOSE y \in S : TRUE IN <<x>> \o SetToSeq(S \ {x})

\* The address listing of a host whose interfaces ifs have an address.
AddrOutput(ifs) ==
    LET q == SetToSeq(ifs)
    IN  [i \in 1..Len(q) |-> AddrLine(q[i], Inet, AddrOf(q[i]))]
        \o (IF IfLo \in ifs THEN <<AddrLine(IfLo, Inet6, <<":", ":", "1">>)>> ELSE << >>)

\* The device table of a host whose interfaces ifs have counters, after the
\* two header lines of /proc/net/dev.
DevOutput(ifs) ==
    LET q == SetToSeq(ifs)
    IN  <<<<<<"I", "n", "t", "e", "r", "-", "|">>, <<"R", "e", "c", "e", "i", "v", "e">>>>,
          <<<<"f", "a", "c", "e">>, <<"|", "b", "y", "t", "e", "s">>>>>>
        \o [i \in 1..Len(q) |-> DevLine(q[i], <<"4", "2">>, <<"7">>)]

\* Hosts: the interfaces that have an address, and those that have counters.
RemoteHosts ==
    {[addrIfs |-> {IfLo, IfEth}, devIfs |-> {IfLo}],
     [addrIfs |-> {IfLo}, devIfs |-> {IfLo, IfEth, IfTun}]}

UptimeOutputs ==
    {<<<<<<"9", "3", ".", "5">>, <<"4", "1", ".", "2">>>>>>,     \* "93.5 41.2"
     <<<<<<"u", "p">>>>>>}                                       \* one field

HostnameOutputs == {<<"w", "e", "b", ".", "x", "\n">>}

ShortHostnameOutputs == {<<"w", "e", "b", "\n">>}

LoadOutputs ==
    {<<<<<<"0", ".", "1">>, <<"0", ".", "2">>, <<"0", ".", "3">>, <<"2", "/", "1", "5">>,
         <<"8", "1">>>>>>}

MemOutputs ==
    {<<<<KeyMemTotal, <<"8">>, <<"k", "B">>>>, <<KeyMemFree, <<"2">>, <<"k", "B">>>>,
       <<KeyBuffers, <<"1">>, <<"k", "B">>>>, <<KeyCached, <<"3">>, <<"k", "B">>>>,
       <<<<"H", "u", "g", "e">>, <<"0">>>>>>}

DfHeader ==
    <<<<"F", "S">>, <<"1", "B">>, <<"U", "s", "e", "d">>, <<"A", "v">>, <<"U", "%">>,
      <<"M", "n", "t">>, <<"o", "n">>>>

\* "df -B1": one entry on one line, one with the device on a line of its own.
DfOutputs ==
    {<<DfHeader,
       <<DevPrefix \o <<"a">>, <<"9", "0">>, <<"5", "0">>, <<"4", "0">>, <<"5", "%">>, <<"/">>>>,
       <<DevPrefix \o <<"l", "o", "n", "g">>>>,
       <<<<"6", "0">>, <<"2", "0">>, <<"4", "0">>, <<"3", "%">>, <<"/", "v">>>>>>}

\* plain "df" counts 1K blocks.
DfFallbackOutputs ==
    {<<DfHeader,
       <<DevPrefix \o <<"a">>, <<"9">>, <<"5">>, <<"4">>, <<"5", "%">>, <<"/">>>>>>}

StatOutputs ==
    {<<<<KeyCpu, <<"3">>, <<"0">>, <<"1">>, <<"6">>, <<"0">>, <<"0">>, <<"0">>, <<"0">>, <<"0">>,
         <<"0">>>>,
       <<KeyCpu \o <<"0">>, <<"3">>, <<"0">>, <<"1">>, <<"6">>>>>>}

Probes ==
    <<"uptime", "hostname", "loads", "mem", "fsInfos", "netIpAddrs", "netDevInfos", "cpu">>

ProbeSet == {Probes[i] : i \in 1..Len(Probes)}

\* The probes whose function runs a second command when the first fails.
HasFallback(p) == p \in {"hostname", "fsInfos", "netIpAddrs"}

\* What the command of probe p (its fallback command when fb) can print on host h.
Outputs(h, p, fb) ==
    CASE p = "uptime" -> UptimeOutputs
      [] p = "hostname" -> IF fb THEN ShortHostnameOutputs ELSE HostnameOutputs
      [] p = "loads" -> LoadOutputs
      [] p = "mem" -> MemOutputs
      [] p = "fsInfos" -> IF fb THEN DfFallbackOutputs ELSE DfOutputs
      [] p = "netIpAddrs" -> {AddrOutput(h.addrIfs)}
      [] p = "netDevInfos" -> {DevOutput(h.devIfs)}
      [] p = "cpu" -> StatOutputs

\* ssh.Client.Execute: an error, or the standard output of the command.
Execute(h, p, fb) == {ExecFailed} \cup {Executed(o) : o \in Outputs(h, p, fb)}

\* The function the closure of probe p calls, given the results of its command
\* and (for the probes that have one) of its fallback command.
ProbeFn(p, r, r2) ==
    CASE p = "uptime" -> GetUptime(r)
      [] p = "hostname" -> GetHostname(r, r2)
      [] p = "loads" -> GetLoad(r)
      [] p = "mem" -> GetMemInfo(r)
      [] p = "fsInfos" -> GetFSInfos(r, r2)
      [] p = "netIpAddrs" -> GetNetIPAddrs(r, r2)
      [] p = "netDevInfos" -> GetNetDevInfos(r)
      [] p = "cpu" -> GetCPU(r)

(***************************************************************************)
(* Client.GetStats over github.com/fatih/semgroup                           *)
(*                                                                         *)
(* semgroup.Group.Go adds one to the wait group, acquires one slot of the  *)
(* weighted semaphore (blocking while none is free) and starts a goroutine *)
(* that runs the closure, appends its error (if any) to the group's errors,*)
(* releases the slot and marks the wait group done.  Group.Wait waits for  *)
(* the wait group and returns the collected errors, nil when there is none.*)
(***************************************************************************)
MaxWorkers == 3

ZeroLocals ==
    [uptime |-> 0, hostname |-> EmptyStr, loads |-> ZeroLoads, mem |-> ZeroMemInfo,
     fsInfos |-> << >>, netIpAddrs |-> NilMap, netDevInfos |-> NilMap, cpu |-> ZeroCPUInfo]

ZeroStats ==
    [Uptime |-> 0, Hostname |-> EmptyStr, Loads |-> ZeroLoads, CPU |-> ZeroCPUInfo,
     MEM |-> ZeroMemInfo, FSInfos |-> << >>, NetInterface |-> NilMap]

StatsIdle ==
    /\ workers = 0
    /\ remote = [addrIfs |-> {}, devIfs |-> {}]
    /\ pc = "idle"
    /\ next = 1
    /\ st = [p \in ProbeSet |-> "pending"]
    /\ sem = 0
    /\ wg = 0
    /\ errs = {}
    /\ loc = ZeroLocals
    /\ produced = ZeroLocals
    /\ stats = ZeroStats
    /\ err = "nil"

MergeIdle ==
    /\ mAddr = NilMap
    /\ mDev = NilMap
    /\ mOut = NilMap
    /\ mDone = FALSE

NoKeyPath ==
    [path |-> FALSE, expand |-> TRUE, read |-> TRUE, block |-> "none", pass |-> "ok",
     decrypt |-> TRUE, parse |-> TRUE, signer |-> TRUE]

ConnIdle ==
    /\ env = [provided |-> FALSE, port |-> 0, agent |-> "unset", key |-> NoKeyPath,
              tty |-> FALSE, dial |-> FALSE]
    /\ ncPc = "idle"
    /\ ncPort = 0
    /\ auths = << >>
    /\ ncClient = "nil"
    /\ ncErr = "nil"
    /\ exitedBy = "none"

ZeroSection == [Hostname |-> EmptyStr, Port |-> 0, User |-> EmptyStr, IdentityFile |-> EmptyStr]

NoEntry == [called |-> FALSE, host |-> EmptyStr, port |-> 0, user |-> EmptyStr, keyfile |-> EmptyStr]

NoConfig == [host |-> EmptyStr, port |-> 0, username |-> EmptyStr, keyPath |-> EmptyStr]

NoOptions == [user |-> EmptyStr, host |-> EmptyStr, port |-> 0, keypath |-> EmptyStr]

RunIdle ==
    /\ args = [addr |-> EmptyStr, flagKeyPath |-> EmptyStr, home |-> TRUE,
               config |-> "missing", idrsa |-> FALSE]
    /\ HostInfo = NilMap
    /\ rPc = "idle"
    /\ parsed = [username |-> EmptyStr, host |-> EmptyStr, port |-> 0]
    /\ entry = NoEntry
    /\ sres = NoConfig
    /\ opts = NoOptions

ParseIdle ==
    /\ pKind = "none"
    /\ pIn = << >>
    /\ pOut = << >>
    /\ pDone = FALSE

EntryIdle ==
    /\ eTable = NilMap
    /\ eName = EmptyStr
    /\ eRuns = << >>

\* The zero value of viewport.Model, as far as Rendering uses it; content is the
\* snapshot whose rendering SetContent was given, -1 before the first one.
ZeroViewport == [Width |-> 0, Height |-> 0, YOffset |-> 0, content |-> 0 - 1]

TuiIdle ==
    /\ rendering = [stats |-> 0, ready |-> FALSE, viewport |-> ZeroViewport]
    /\ program = [running |-> FALSE, tick |-> FALSE, ticks |-> 0, calls |-> 0]
    /\ hostState = 0

PassIdle ==
    /\ rpPc = [at |-> "idle", err |-> FALSE]
    /\ sig = [notify |-> FALSE, buf |-> 0, closed |-> FALSE, sent |-> 0, at |-> "none"]
    /\ handler = [pc |-> "none", quit |-> FALSE, got |-> "none"]
    /\ term = [echo |-> TRUE, exit |-> "none"]

AuxIdle == ParseIdle /\ EntryIdle /\ TuiIdle /\ PassIdle

\* GetStats is entered on a client made by New with a positive worker count.
InitStats ==
    /\ workers \in 1..MaxWorkers
    /\ remote \in RemoteHosts
    /\ pc = "go"
    /\ next = 1
    /\ st = [p \in ProbeSet |-> "pending"]
    /\ sem = 0
    /\ wg = 0
    /\ errs = {}
    /\ loc = ZeroLocals
    /\ produced = ZeroLocals
    /\ stats = ZeroStats
    /\ err = "nil"
    /\ MergeIdle
    /\ ConnIdle
    /\ RunIdle
    /\ AuxIdle

\* The mutant: Acquire never waits.
SlotFreeAlways == TRUE

\* semaphore.Weighted.Acquire(ctx, 1) returns at once when a slot is free.
SlotFree == workers - sem >= 1

\* The mutant: the group's context is cancelled by the first error, as in errgroup.
ContextDoneOnError == errs # {}

\* The group's context is context.Background(), which is never done: Acquire
\* never returns an error.
ContextDone == FALSE

\* One s.Go(...) call of GetStats, for the next probe in program order.
Go ==
    /\ pc = "go"
    /\ ContextDone \/ SlotFree
    /\ LET p == Probes[next]
       IN  IF ContextDone
           THEN /\ errs' = errs \cup {[probe |-> p, kind |-> "acquire"]}
                /\ st' = [st EXCEPT ![p] = "skipped"]
                /\ UNCHANGED <<sem, wg>>
           ELSE /\ st' = [st EXCEPT ![p] = "primary"]
                /\ sem' = sem + 1
                /\ wg' = wg + 1
                /\ UNCHANGED errs
    /\ next' = next + 1
    /\ pc' = IF next = Len(Probes) THEN "wait" ELSE "go"
    /\ UNCHANGED <<workers, remote, loc, produced, stats, err, mergeVars, connVars, runVars, auxVars>>

\* The end of the goroutine of probe p, whose function returned res: the closure
\* has assigned the local variable; the error is appended, the slot released,
\* the wait group marked done.  A panic in a goroutine ends the process.
Finish(p, res) ==
    IF res.panic
    THEN /\ pc' = "panic"
         /\ UNCHANGED <<next, st, sem, wg, errs, loc, produced>>
    ELSE /\ loc' = [loc EXCEPT ![p] = res.val]
         /\ produced' = IF res.err = "nil" THEN [produced EXCEPT ![p] = res.val] ELSE produced
         /\ errs' = IF res.err = "nil" THEN errs
                    ELSE errs \cup {[probe |-> p, kind |-> res.err]}
         /\ st' = [st EXCEPT ![p] = IF res.err = "nil" THEN "ok" ELSE "fail"]
         /\ sem' = sem - 1
         /\ wg' = wg - 1
         /\ UNCHANGED <<pc, next>>

\* The command of probe p returns.
ExecPrimary(p) ==
    /\ pc \in {"go", "wait", "merge", "returned"}
    /\ st[p] = "primary"
    /\ \E r \in Execute(remote, p, FALSE) :
          IF ~r.ok /\ HasFallback(p)
          THEN /\ st' = [st EXCEPT ![p] = "fallback"]
               /\ UNCHANGED <<pc, next, sem, wg, errs, loc, produced>>
          ELSE Finish(p, ProbeFn(p, r, ExecFailed))
    /\ UNCHANGED <<workers, remote, stats, err, mergeVars, connVars, runVars, auxVars>>

\* The fallback command of probe p returns.
ExecFallback(p) ==
    /\ pc \in {"go", "wait", "merge", "returned"}
    /\ st[p] = "fallback"
    /\ \E r2 \in Execute(remote, p, TRUE) : Finish(p, ProbeFn(p, ExecFailed, r2))
    /\ UNCHANGED <<workers, remote, stats, err, mergeVars, connVars, runVars, auxVars>>

\* The mutant: Wait returns without waiting.
WaitGroupDoneAlways == TRUE

\* sync.WaitGroup.Wait returns when the counter is zero.
WaitGroupDone == wg = 0

\* err := s.Wait()
Wait ==
    /\ pc = "wait"
    /\ WaitGroupDone
    /\ err' = IF errs = {} THEN "nil" ELSE "multi"
    /\ pc' = "merge"
    /\ UNCHANGED <<workers, remote, next, st, sem, wg, errs, loc, produced, stats, mergeVars, connVars, runVars, auxVars>>

\* The types.Stats GetStats builds from its local variables, whatever the error.
BuildStats(l, e) ==
    [Uptime |-> l.uptime, Hostname |-> l.hostname, Loads |-> l.loads, CPU |-> l.cpu,
     MEM |-> l.mem, FSInfos |-> l.fsInfos,
     NetInterface |-> MergeNetInterfaces(l.netIpAddrs, l.netDevInfos)]

\* The merge of the two network tables and the return of GetStats.
MergeAndReturn ==
    /\ pc = "merge"
    /\ stats' = BuildStats(loc, err)
    /\ pc' = "returned"
    /\ UNCHANGED <<workers, remote, next, st, sem, wg, errs, loc, produced, err, mergeVars, connVars, runVars, auxVars>>

NextStats ==
    \/ Go
    \/ \E p \in ProbeSet : ExecPrimary(p)
    \/ \E p \in ProbeSet : ExecFallback(p)
    \/ Wait
    \/ MergeAndReturn

SpecStats == InitStats /\ [][NextStats]_vars

(***************************************************************************)
(* types.MergeNetInterfaces on arbitrary tables                            *)
(***************************************************************************)
NetIfs == {IfLo, IfEth, IfTun}

AddrTables == UNION {[ifs -> {[IPv4 |-> AddrOf(IfEth), IPv6 |-> EmptyStr]}] : ifs \in SUBSET NetIfs}

DevTables == UNION {[ifs -> {[Rx |-> 42, Tx |-> 7], [Rx |-> 0, Tx |-> 0]}] : ifs \in SUBSET NetIfs}

InitMerge ==
    /\ mAddr \in AddrTables
    /\ mDev \in DevTables
    /\ mOut = NilMap
    /\ mDone = FALSE
    /\ StatsIdle
    /\ ConnIdle
    /\ RunIdle
    /\ AuxIdle

ApplyMerge ==
    /\ ~mDone
    /\ mOut' = MergeNetInterfaces(mAddr, mDev)
    /\ mDone' = TRUE
    /\ UNCHANGED <<mAddr, mDev, statsVars, connVars, runVars, auxVars>>

NextMerge == ApplyMerge

SpecMerge == InitMerge /\ [][NextMerge]_vars

(***************************************************************************)
(* Properties of GetStats                                                  *)
(***************************************************************************)
InFlight == {p \in ProbeSet : st[p] \in {"primary", "fallback"}}

Failed == {p \in ProbeSet : st[p] = "fail"}

StatsField(s, p) ==
    CASE p = "uptime" -> s.Uptime
      [] p = "hostname" -> s.Hostname
      [] p = "loads" -> s.Loads
      [] p = "mem" -> s.MEM
      [] p = "fsInfos" -> s.FSInfos
      [] p = "cpu" -> s.CPU

\* C1: when the remote command of exactly one probe has failed and the other
\* seven probes succeeded, GetStats returns a non-nil error and a snapshot whose
\* fields hold what the successful probes produced; when the failed probe is the
\* device-counter probe, NetInterface still has an entry for every interface of
\* the address table.
C1_PartialSnapshot ==
    \A p \in ProbeSet :
        (/\ pc = "returned"
         /\ errs = {[probe |-> p, kind |-> "execute"]}
         /\ \A q \in ProbeSet \ {p} : st[q] = "ok")
        => /\ err # "nil"
           /\ \A q \in (ProbeSet \ {p}) \ {"netIpAddrs", "netDevInfos"} :
                  StatsField(stats, q) = produced[q]
           /\ p = "netDevInfos" => DOMAIN stats.NetInterface = DOMAIN produced.netIpAddrs

\* C2: the number of probes started and not yet finished never exceeds the
\* worker limit, and a probe is started only while that number is below it.
C2_BoundedInFlight ==
    /\ [](Cardinality(InFlight) <= workers)
    /\ [][next' # next => Cardinality(InFlight) < workers]_vars

\* The limit is reached while probes are still to be scheduled, after earlier
\* probes have finished and given their slots to later ones.
C2_Witness ==
    /\ pc = "go"
    /\ Cardinality(InFlight) = workers
    /\ next > workers + 1

\* C3 as stated: once a probe has failed, no probe that has not yet started is
\* started, and a probe that has finished keeps its result.
C3_NoStartAfterFailure ==
    [][Failed # {} =>
          \A q \in ProbeSet :
              /\ st[q] = "pending" => st'[q] = "pending"
              /\ st[q] = "ok" => loc'[q] = loc[q]]_vars

\* C3 as amended: a failure does not stop the scheduling.  Once the eight s.Go
\* calls are over every probe has been started, also when one has failed; and
\* every probe that succeeded, before or after the failure, keeps the value it
\* produced, in its local variable and in the snapshot GetStats returns.
C3_FailureDoesNotStopScheduling ==
    /\ pc \in {"wait", "merge", "returned"} =>
          \A p \in ProbeSet : st[p] \notin {"pending", "skipped"}
    /\ \A p \in ProbeSet : st[p] = "ok" => loc[p] = produced[p]
    /\ pc = "returned" =>
          \A p \in ProbeSet \ {"netIpAddrs", "netDevInfos"} :
              st[p] = "ok" => StatsField(stats, p) = produced[p]

\* With one worker the first probe has failed before the others are started,
\* and the last one has still run and succeeded.
C3_Witness ==
    /\ pc = "returned"
    /\ workers = 1
    /\ st["uptime"] = "fail"
    /\ st["cpu"] = "ok"
    /\ stats.CPU = produced.cpu
    /\ stats.CPU # ZeroCPUInfo

\* C4: GetStats neither merges the network tables nor returns while a probe is
\* running: from the merge on every probe has finished, and the returned
\* NetInterface is the merge of the tables the two network probes left.
C4_MergeAfterAllProbes ==
    /\ pc \in {"merge", "returned"} => (InFlight = {} /\ wg = 0 /\ sem = 0)
    /\ pc = "returned" =>
          stats.NetInterface = MergeNetInterfaces(loc.netIpAddrs, loc.netDevInfos)

\* Both network probes ran concurrently with others and the merge has an entry.
C4_Witness ==
    /\ pc = "returned"
    /\ workers > 1
    /\ st["netIpAddrs"] = "ok"
    /\ st["netDevInfos"] = "ok"
    /\ stats.NetInterface # NilMap

\* C5: the key set of MergeNetInterfaces(A, D) is exactly the key set of A.
C5_KeysAreAddrKeys == mDone => DOMAIN mOut = DOMAIN mAddr

(***************************************************************************)
(* ssh.NewClient: the agent, then the key file and the password            *)
(*                                                                         *)
(* env.provided: an *ssh.Client was passed in.  env.agent: "unset" (no     *)
(* SSH_AUTH_SOCK), "nosocket" (the socket cannot be dialled), "rejected"   *)
(* (ssh.Dial with the agent fails), "ok".  env.key describes the key file: *)
(* path (a key path is given), expand (homedir.Expand succeeds), read      *)
(* (os.ReadFile succeeds), block ("none": no PEM block, "plain",           *)
(* "encrypted"), pass (readPass: "ok", "error", or "signal" when a signal  *)
(* arrives during the prompt), decrypt (x509.DecryptPEMBlock succeeds),    *)
(* parse (ParsePemBlock, or ssh.ParsePrivateKey for a plain block,         *)
(* succeeds), signer (ssh.NewSignerFromKey succeeds).  env.tty: standard   *)
(* input is a terminal.  env.dial: the handshake of ssh.Dial succeeds.     *)
(***************************************************************************)
DefaultPort == 22

GoodKey == [NoKeyPath EXCEPT !.path = TRUE, !.block = "plain"]

KeyFiles ==
    {NoKeyPath,
     GoodKey,
     [GoodKey EXCEPT !.expand = FALSE],
     [GoodKey EXCEPT !.read = FALSE],
     [GoodKey EXCEPT !.block = "none"],
     [GoodKey EXCEPT !.parse = FALSE],
     [GoodKey EXCEPT !.block = "encrypted"],
     [GoodKey EXCEPT !.block = "encrypted", !.pass = "error"],
     [GoodKey EXCEPT !.block = "encrypted", !.pass = "signal"],
     [GoodKey EXCEPT !.block = "encrypted", !.decrypt = FALSE],
     [GoodKey EXCEPT !.block = "encrypted", !.parse = FALSE],
     [GoodKey EXCEPT !.block = "encrypted", !.signer = FALSE]}

InitConn ==
    /\ env \in [provided : BOOLEAN, port : {0, 2222},
                agent : {"unset", "nosocket", "rejected", "ok"}, key : KeyFiles,
                tty : BOOLEAN, dial : BOOLEAN]
    /\ ncPc = "enter"
    /\ ncPort = env.port
    /\ auths = << >>
    /\ ncClient = "nil"
    /\ ncErr = "nil"
    /\ exitedBy = "none"
    /\ StatsIdle
    /\ MergeIdle
    /\ RunIdle
    /\ AuxIdle

\* getAgentAuth: an agent auth method when SSH_AUTH_SOCK is set and its socket
\* can be dialled.
getAgentAuth(e) == e.agent \in {"rejected", "ok"}

\* tryAgentConnect: the client dialled through the agent, nil when there is no
\* agent or the dial fails.
tryAgentConnect(e) ==
    IF getAgentAuth(e) THEN (IF e.agent = "ok" THEN "agent" ELSE "nil") ELSE "nil"

\* addKeyAuth(auths, keypath): the slice it returns, or the os.Exit it calls.
addKeyAuth(a, k) ==
    IF ~k.path THEN [exit |-> "none", auths |-> a]
    ELSE IF ~k.expand THEN [exit |-> "addKeyAuth", auths |-> a]
    ELSE IF ~k.read THEN [exit |-> "addKeyAuth", auths |-> a]
    ELSE IF k.block = "none" THEN [exit |-> "none", auths |-> a]
    ELSE IF k.block = "encrypted"
         THEN IF k.pass = "signal" THEN [exit |-> "readPass", auths |-> a]
              ELSE IF k.pass = "error" THEN [exit |-> "none", auths |-> a]
              ELSE IF ~k.decrypt THEN [exit |-> "none", auths |-> a]
              ELSE IF ~k.parse THEN [exit |-> "none", auths |-> a]
              ELSE IF ~k.signer THEN [exit |-> "none", auths |-> a]
              ELSE [exit |-> "none", auths |-> Append(a, "publickey")]
         ELSE IF ~k.parse THEN [exit |-> "none", auths |-> a]
              ELSE [exit |-> "none", auths |-> Append(a, "publickey")]

\* addPasswordAuth: the password callback, offered on a terminal only.
addPasswordAuth(a, e) == IF ~e.tty THEN a ELSE Append(a, "password")

\* NewClient up to the port default: a client passed in is returned as it is.
NewClientEnter ==
    /\ ncPc = "enter"
    /\ IF env.provided
       THEN /\ ncClient' = "provided"
            /\ ncErr' = "nil"
            /\ ncPc' = "returned"
            /\ UNCHANGED ncPort
       ELSE /\ ncPort' = IF ncPort = 0 THEN DefaultPort ELSE ncPort
            /\ ncPc' = "agent"
            /\ UNCHANGED <<ncClient, ncErr>>
    /\ UNCHANGED <<env, auths, exitedBy, statsVars, mergeVars, runVars, auxVars>>

\* "try connecting via agent first": when the agent dial yields a client,
\* NewClient returns nil, nil.
NewClientAgent ==
    /\ ncPc = "agent"
    /\ LET sshClient == tryAgentConnect(env)
       IN  IF sshClient # "nil"
           THEN /\ ncClient' = "nil"
                /\ ncErr' = "nil"
                /\ ncPc' = "returned"
           ELSE /\ ncPc' = "key"
                /\ UNCHANGED <<ncClient, ncErr>>
    /\ UNCHANGED <<env, ncPort, auths, exitedBy, statsVars, mergeVars, runVars, auxVars>>

\* auths = addKeyAuth(auths, keypath)
NewClientKey ==
    /\ ncPc = "key"
    /\ LET r == addKeyAuth(auths, env.key)
       IN  /\ exitedBy' = r.exit
           /\ auths' = r.auths
           /\ ncPc' = IF r.exit # "none" THEN "exited" ELSE "password"
    /\ UNCHANGED <<env, ncPort, ncClient, ncErr, statsVars, mergeVars, runVars, auxVars>>

\* auths = addPasswordAuth(user, addr, auths)
NewClientPassword ==
    /\ ncPc = "password"
    /\ auths' = addPasswordAuth(auths, env)
    /\ ncPc' = "dial"
    /\ UNCHANGED <<env, ncPort, ncClient, ncErr, exitedBy, statsVars, mergeVars, runVars, auxVars>>

\* ssh.Dial with the collected methods, and the return of NewClient.
NewClientDial ==
    /\ ncPc = "dial"
    /\ IF env.dial /\ auths # << >>
       THEN ncClient' = "dialled" /\ ncErr' = "nil"
       ELSE ncClient' = "nil" /\ ncErr' = "handshake"
    /\ ncPc' = "returned"
    /\ UNCHANGED <<env, ncPort, auths, exitedBy, statsVars, mergeVars, runVars, auxVars>>

\* client.New hands the *ssh.Client on when the error is nil, and the first
\* Execute of GetStats calls c.client.NewSession() on it: a nil pointer
\* dereference when the client is nil.
ClientExecute ==
    /\ ncPc = "returned"
    /\ ncErr = "nil"
    /\ ncPc' = IF ncClient = "nil" THEN "panic" ELSE "session"
    /\ UNCHANGED <<env, ncPort, auths, ncClient, ncErr, exitedBy, statsVars, mergeVars, runVars, auxVars>>

NextConn ==
    \/ NewClientEnter
    \/ NewClientAgent
    \/ NewClientKey
    \/ NewClientPassword
    \/ NewClientDial
    \/ ClientExecute

SpecConn == InitConn /\ [][NextConn]_vars

\* C6: when the agent-authenticated dial succeeds NewClient returns a non-nil
\* client holding that transport, and whenever NewClient returns a nil error
\* the client can execute commands.
C6_AgentClientUsable ==
    /\ (ncPc \in {"returned", "session", "panic"} /\ ncErr = "nil") => ncClient # "nil"
    /\ (ncPc \in {"returned", "session", "panic"} /\ ~env.provided /\ env.agent = "ok")
           => ncClient = "agent"
    /\ ncPc # "panic"

\* The key-file method fails: path expansion, reading, PEM decoding, the
\* passphrase, decryption, or parsing the key.
KeyMethodFails(k) ==
    /\ k.path
    /\ \/ ~k.expand
       \/ ~k.read
       \/ k.block = "none"
       \/ ~k.parse
       \/ k.block = "encrypted" /\ (k.pass = "error" \/ ~k.decrypt \/ ~k.signer)

\* C7: a failure of the key-file method only drops the method: addKeyAuth does
\* not end the process, and NewClient goes on to the password method and the
\* handshake without a public-key method.
C7_KeyFailureNotFatal ==
    KeyMethodFails(env.key) =>
        /\ exitedBy # "addKeyAuth"
        /\ ncPc \in {"password", "dial"} => auths = << >>

(***************************************************************************)
(* run: the address argument, ~/.ssh/config, and the options of client.New *)
(***************************************************************************)
\* strconv.Atoi on an optional sign followed by decimal digits.
Atoi(s) ==
    LET signed == s # EmptyStr /\ s[1] \in {"+", "-"}
        digits == IF signed THEN Tail(s) ELSE s
    IN  IF digits # EmptyStr /\ \A i \in 1..Len(digits) : IsDigit(digits[i])
        THEN [ok |-> TRUE,
              val |-> IF signed /\ s[1] = "-" THEN 0 - DigitsValue(digits)
                      ELSE DigitsValue(digits)]
        ELSE [ok |-> FALSE, val |-> 0]

\* The number of occurrences of the character c in s.
RECURSIVE Count(_, _)
Count(s, c) ==
    IF s = EmptyStr THEN 0 ELSE (IF s[1] = c THEN 1 ELSE 0) + Count(Tail(s), c)

MaxPort == 65536

\* parseAddrAsUserHostAddrPort: host is set only after an "@"; strings.Split
\* yields two parts when host holds exactly one ":".
parseAddrAsUserHostAddrPort(flagHost) ==
    LET i == Index(flagHost, "@")
        user == IF i # -1 THEN SubSeq(flagHost, 1, i) ELSE EmptyStr
        host == IF i # -1 THEN SubSeq(flagHost, i + 2, Len(flagHost)) ELSE EmptyStr
        failed == [username |-> EmptyStr, host |-> EmptyStr, port |-> 0, err |-> TRUE]
    IN  IF Count(host, ":") = 1
        THEN LET c == Index(host, ":")
                 port == Atoi(SubSeq(host, c + 2, Len(host)))
             IN  IF ~port.ok THEN failed
                 ELSE IF port.val <= 0 \/ port.val >= MaxPort THEN failed
                 ELSE [username |-> user, host |-> SubSeq(host, 1, c), port |-> port.val,
                       err |-> FALSE]
        ELSE [username |-> user, host |-> host, port |-> 0, err |-> FALSE]

\* path.Match(pattern, name) for patterns of literal characters, "*" and "?"
\* (no character class, no escape: such a pattern is never malformed).  "*"
\* matches any run of characters other than "/", "?" one such character.
RECURSIVE Match(_, _)
Match(pattern, name) ==
    IF pattern = EmptyStr THEN name = EmptyStr
    ELSE IF pattern[1] = "*"
         THEN \E k \in 0..Len(name) :
                 /\ \A j \in 1..k : name[j] # "/"
                 /\ Match(Tail(pattern), SubSeq(name, k + 1, Len(name)))
    ELSE IF name = EmptyStr THEN FALSE
    ELSE IF pattern[1] = "?" THEN name[1] # "/" /\ Match(Tail(pattern), Tail(name))
    ELSE pattern[1] = name[1] /\ Match(Tail(pattern), Tail(name))

Star == <<"*">>

\* Section.getFull: each field of s when set, else that of def; name is not used.
getFull(s, name, def) ==
    [called |-> TRUE,
     host |-> IF Len(s.Hostname) > 0 THEN s.Hostname
              ELSE IF Len(def.Hostname) > 0 THEN def.Hostname ELSE EmptyStr,
     port |-> IF s.Port > 0 THEN s.Port ELSE IF def.Port > 0 THEN def.Port ELSE 0,
     user |-> IF Len(s.User) > 0 THEN s.User
              ELSE IF Len(def.User) > 0 THEN def.User ELSE EmptyStr,
     keyfile |-> IF Len(s.IdentityFile) > 0 THEN s.IdentityFile
                 ELSE IF Len(def.IdentityFile) > 0 THEN def.IdentityFile ELSE EmptyStr]

\* GetSshEntry(name) on the table t: the set of values it can return.  The loop
\* "for h, s := range HostInfo" visits the keys in an order the Go runtime
\* chooses, so any matching pattern can be the first one found.
GetSshEntry(t, name) ==
    LET def == IF Star \in DOMAIN t THEN t[Star] ELSE [ZeroSection EXCEPT !.Hostname = name]
        matching == {h \in DOMAIN t : Match(h, name)}
    IN  IF name \in DOMAIN t THEN {getFull(t[name], name, def)}
        ELSE IF matching # {} THEN {getFull(t[h], name, def) : h \in matching}
        ELSE {[called |-> TRUE, host |-> def.Hostname, port |-> def.Port, user |-> def.User,
               keyfile |-> def.IdentityFile]}

HomeDir == <<"/", "h">>

\* filepath.Join(home, ".ssh", "id_rsa")
IdRsaPath == HomeDir \o <<"/", ".", "s", "s", "h", "/", "i", "d", "_", "r", "s", "a">>

\* The default of the flag --private-key-file.
FlagKeyPathDefault == <<"~", "/", ".", "s", "s", "h", "/", "i", "d", "_", "r", "s", "a">>

\* GetSshConfig(flagHost, flagKeyPath): the set of [res, entry, error] it can
\* return.  a.home: homedir.Dir succeeds; a.config: ~/.ssh/config is "missing",
\* "unreadable" (ParseSshConfig returns false) or "ok"; a.idrsa: ~/.ssh/id_rsa
\* exists.
GetSshConfig(a, t, flagHost, flagKeyPath) ==
    IF ~a.home THEN {[res |-> NoConfig, entry |-> NoEntry, error |-> TRUE]}
    ELSE LET entries == IF a.config = "ok" THEN GetSshEntry(t, flagHost) ELSE {NoEntry}
         IN  {LET fromEntry == IF e.called /\ Len(e.keyfile) > 0 /\ Len(flagKeyPath) = 0
                               THEN e.keyfile ELSE EmptyStr
                  keyPath == IF Len(flagKeyPath) = 0 /\ a.idrsa THEN IdRsaPath ELSE fromEntry
              IN  [res |-> [host |-> e.host, port |-> e.port, username |-> e.user,
                            keyPath |-> keyPath],
                   entry |-> e, error |-> FALSE] : e \in entries}

\* The options run gives to client.New from the parsed address, the flag and
\* the values GetSshConfig returned.
RunOptions(pa, keyPath, r) ==
    [host |-> IF Len(r.host) > 0 THEN r.host ELSE pa.host,
     port |-> IF r.port # 0 /\ pa.port = 0 THEN r.port ELSE pa.port,
     user |-> IF Len(r.username) > 0 THEN r.username ELSE pa.username,
     keypath |-> IF Len(r.keyPath) > 0 THEN r.keyPath ELSE keyPath]

HostWeb == <<"w", "e", "b">>
HostWax == <<"w", "a", "x">>
HostDb == <<"d", "b">>

UserAl == <<"a", "l">>

Addresses ==
    {u \o h \o q : u \in {EmptyStr, UserAl \o <<"@">>}, h \in {HostWeb, HostWax, HostDb},
                   q \in {EmptyStr, <<":", "8", "0">>, <<":", "x">>}}

Patterns == {Star, HostWeb, <<"w", "*">>, <<"?", "e", "b">>}

\* A section that sets every field, with values that name its pattern.
FullSection(h) ==
    [Hostname |-> <<"h", "-">> \o h, Port |-> 2200 + Len(h) + Count(h, "?"),
     User |-> <<"u", "-">> \o h, IdentityFile |-> <<"/", "k", "-">> \o h]

\* A section that sets the user only.
UserSection(h) == [ZeroSection EXCEPT !.User = <<"u", "-">> \o h]

AliasTables ==
    UNION {{t \in [ps -> {"full", "user"}] : TRUE} : ps \in SUBSET Patterns}

TableOf(t) == [h \in DOMAIN t |-> IF t[h] = "full" THEN FullSection(h) ELSE UserSection(h)]

InitRun ==
    /\ args \in [addr : Addresses, flagKeyPath : {EmptyStr, FlagKeyPathDefault},
                 home : BOOLEAN, config : {"missing", "unreadable", "ok"}, idrsa : BOOLEAN]
    /\ HostInfo \in IF args.config = "ok" /\ args.home THEN {TableOf(t) : t \in AliasTables}
                    ELSE {NilMap}
    /\ rPc = "parse"
    /\ parsed = [username |-> EmptyStr, host |-> EmptyStr, port |-> 0]
    /\ entry = NoEntry
    /\ sres = NoConfig
    /\ opts = NoOptions
    /\ StatsIdle
    /\ MergeIdle
    /\ ConnIdle
    /\ AuxIdle

\* username, host, port, err := parseAddrAsUserHostAddrPort(addr)
RunParse ==
    /\ rPc = "parse"
    /\ LET r == parseAddrAsUserHostAddrPort(args.addr)
       IN  /\ parsed' = [username |-> r.username, host |-> r.host, port |-> r.port]
           /\ rPc' = IF r.err THEN "error" ELSE "config"
    /\ UNCHANGED <<args, HostInfo, entry, sres, opts, statsVars, mergeVars, connVars, auxVars>>

\* shost, sport, suser, skeyPath, err := ssh.GetSshConfig(host, flagKeyPath)
RunGetSshConfig ==
    /\ rPc = "config"
    /\ \E r \in GetSshConfig(args, HostInfo, parsed.host, args.flagKeyPath) :
          /\ sres' = r.res
          /\ entry' = r.entry
          /\ rPc' = IF r.error THEN "error" ELSE "options"
    /\ UNCHANGED <<args, HostInfo, parsed, opts, statsVars, mergeVars, connVars, auxVars>>

\* The four "if" statements of run and the call of client.New.
RunNew ==
    /\ rPc = "options"
    /\ opts' = RunOptions(parsed, args.flagKeyPath, sres)
    /\ rPc' = "new"
    /\ UNCHANGED <<args, HostInfo, parsed, entry, sres, statsVars, mergeVars, connVars, auxVars>>

NextRun ==
    \/ RunParse
    \/ RunGetSshConfig
    \/ RunNew

SpecRun == InitRun /\ [][NextRun]_vars

\* The patterns of the table, other than "*", that match the name.
GlobMatches(t, name) == {h \in DOMAIN t \ {Star} : Match(h, name)}

\* C8: for an alias with no section of its own and no matching pattern other
\* than "*", GetSshEntry returns the alias itself as hostname, and the port,
\* user and identity file of the "*" section when there is one (zero and empty
\* otherwise).
C8_FallbackKeepsAlias ==
    (/\ entry.called
     /\ Len(parsed.host) > 0
     /\ parsed.host \notin DOMAIN HostInfo
     /\ GlobMatches(HostInfo, parsed.host) = {})
    => LET def == IF Star \in DOMAIN HostInfo THEN HostInfo[Star] ELSE ZeroSection
       IN  /\ entry.host = parsed.host
           /\ entry.port = def.Port
           /\ entry.user = def.User
           /\ entry.keyfile = def.IdentityFile

\* C9: a user or a port given in the address is the one the connection uses,
\* whatever the alias table holds; the table's user and port are used only
\* when the address gives none.
C9_AddressOverridesAlias ==
    rPc = "new" =>
        /\ Len(parsed.username) > 0 => opts.user = parsed.username
        /\ parsed.port # 0 => opts.port = parsed.port
        /\ (Len(parsed.username) = 0 /\ Len(sres.username) > 0) => opts.user = sres.username
        /\ (parsed.port = 0 /\ sres.port # 0) => opts.port = sres.port

\* C10: with no key file on the command line, the identity file the alias
\* table supplies for the host is the one used; ~/.ssh/id_rsa is used only
\* when the table supplies none.
C10_AliasIdentityFileFirst ==
    (rPc = "new" /\ Len(args.flagKeyPath) = 0) =>
        /\ (entry.called /\ Len(entry.keyfile) > 0) => opts.keypath = entry.keyfile
        /\ opts.keypath = IdRsaPath => ~(entry.called /\ Len(entry.keyfile) > 0)

(***************************************************************************)
(* MemInfo.Used and the probe parsers on arbitrary command output          *)
(*                                                                         *)
(* A uint64 is kept as four 16-bit limbs, least significant first, so that *)
(* the subtraction of Used wraps modulo 2^64 as Go's does.                 *)
(***************************************************************************)
LimbBase == 65536

ZeroUint64 == <<0, 0, 0, 0>>

\* uint64(n) for a number n of the model (0 <= n < 2^31).
ToUint64(n) == <<n % LimbBase, (n \div LimbBase) % LimbBase, 0, 0>>

\* a - b on uint64: limb by limb with borrow; the borrow out of the last limb is
\* dropped, which is the wrap-around.
Sub64(a, b) ==
    LET d1 == a[1] - b[1]
        b1 == IF d1 < 0 THEN 1 ELSE 0
        d2 == a[2] - b[2] - b1
        b2 == IF d2 < 0 THEN 1 ELSE 0
        d3 == a[3] - b[3] - b2
        b3 == IF d3 < 0 THEN 1 ELSE 0
        d4 == a[4] - b[4] - b3
    IN  <<d1 % LimbBase, d2 % LimbBase, d3 % LimbBase, d4 % LimbBase>>

\* MemInfo.Used: m.Total - m.Free - m.Buffers - m.Cached on uint64.
Used(m) ==
    Sub64(Sub64(Sub64(ToUint64(m.Total), ToUint64(m.Free)), ToUint64(m.Buffers)),
          ToUint64(m.Cached))

\* All sequences of at most n elements of S.
SeqsUpTo(S, n) == UNION {[1..k -> S] : k \in 0..n}

KB == <<"k", "B">>

\* The line of /proc/meminfo for a key, none when the value is empty.
MemRow(key, v) == IF v = EmptyStr THEN << >> ELSE <<<<key, v, KB>>>>

\* /proc/meminfo: MemTotal is 2048 kB, 256 kB or missing, Buffers may be
\* unparsable, Cached may be missing.
MemInputs ==
    {MemRow(KeyMemTotal, t) \o MemRow(KeyMemFree, f) \o MemRow(KeyBuffers, b)
        \o MemRow(KeyCached, c) \o MemRow(KeySwapTotal, <<"9">>)
     : t \in {EmptyStr, <<"2", "0", "4", "8">>, <<"2", "5", "6">>},
       f \in {<<"5", "1", "2">>, <<"0">>},
       b \in {<<"6", "4">>, <<"x">>},
       c \in {<<"1", "2", "8">>, EmptyStr}}

Zero == <<"0">>

\* /proc/stat: counters, all counters zero, no parsable counter, no "cpu" line,
\* no line at all.
StatInputs ==
    {<<<<KeyCpu, <<"3">>, Zero, <<"1">>, <<"6">>, Zero, Zero, Zero, Zero, Zero, Zero>>>>,
     <<<<KeyCpu, <<"3">>, <<"x">>, <<"1">>>>>>,
     <<<<KeyCpu, Zero, Zero, Zero, Zero, Zero, Zero, Zero, Zero, Zero, Zero>>>>,
     <<<<KeyCpu, <<"x">>, <<"-", "1">>>>>>,
     <<<<KeyCpu>>>>,
     <<<<KeyCpu \o Zero, <<"3">>, Zero, <<"1">>, <<"6">>>>, <<<<"i", "n", "t", "r">>, <<"5">>>>>>,
     << >>, <<<< >>>>}

DevA == DevPrefix \o <<"a">>

\* A device that is not under /dev: a network file system.
DevNfs == <<"s", "r", "v", ":", "/", "x">>

\* The lines df can print, whole and cut short, and an empty line.
DfLines ==
    {<< >>,
     <<DevA>>,
     <<DevNfs>>,
     <<DevA, <<"9", "0">>>>,
     <<DevA, <<"9", "0">>, <<"5", "0">>, <<"4", "0">>>>,
     <<DevA, <<"9", "0">>, <<"5", "0">>, <<"4", "0">>, <<"5", "%">>>>,
     <<DevA, <<"9", "0">>, <<"5", "0">>, <<"4", "0">>, <<"5", "%">>, <<"/">>>>,
     <<<<"6", "0">>, <<"2", "0">>, <<"4", "0">>, <<"3", "%">>, <<"/", "v">>>>,
     <<<<"6", "0">>, <<"2", "0">>, <<"4", "0">>>>,
     DfHeader}

MaxLines == 2

DfInputs == SeqsUpTo(DfLines, MaxLines)

\* A logical entry of df: device, total, used, free, use%, mount point.
DfEntries ==
    [dev : {DevA, DevPrefix \o <<"l", "o", "n", "g">>, DevNfs},
     total : {<<"9", "0">>, <<"-">>}, used : {<<"5", "0">>}, free : {<<"4", "0">>, <<"x">>},
     pct : {<<"5", "%">>}, mnt : {<<"/">>, <<"/", "v">>}]

\* The entry on one line.
OneLine(e) == <<<<e.dev, e.total, e.used, e.free, e.pct, e.mnt>>>>

\* The entry with the device name on a line of its own.
TwoLines(e) == <<<<e.dev>>, <<e.total, e.used, e.free, e.pct, e.mnt>>>>

\* What df prints before and after the entry.
DfContexts ==
    {[before |-> b, after |-> a] :
        b \in {<< >>, <<DfHeader>>},
        a \in {<< >>,
               <<<<DevPrefix \o <<"b">>, <<"7", "0">>, <<"3", "0">>, <<"4", "0">>, <<"4", "%">>,
                   <<"/", "w">>>>>>}}

LayoutInputs == {[entry |-> e, ctx |-> c] : e \in DfEntries, c \in DfContexts}

\* /proc/loadavg, whole and malformed.
LoadInputs ==
    {<<<<<<"0", ".", "1">>, <<"0", ".", "2">>, <<"0", ".", "3">>, procs, <<"8", "1">>>>>>
     : procs \in {<<"2", "/", "1", "5">>, <<"2", "/">>, <<"/">>, <<"2">>}}
    \cup {<< >>, <<<<<<"0", ".", "1">>>>>>}

\* /proc/uptime, whole and malformed.
UptimeInputs ==
    UptimeOutputs \cup {<< >>, <<<<<<"x">>, <<"4">>>>>>, <<<<<<".">>, <<"4">>>>>>}

\* /proc/net/dev with a line of 17 fields whose counters may be unparsable, and
\* one of 16 fields.
NetDevInputs ==
    {DevOutput({})} \cup {DevOutput({}) \o <<DevLine(IfEth, rx, <<"7">>)>> : rx \in {<<"4", "2">>, <<"x">>}}
    \cup {<<Tail(DevLine(IfEth, <<"4", "2">>, <<"7">>))>>, <<<< >>>>}

\* "ip -o addr" with whole lines, a line of three fields and an empty line.
IPAddrInputs ==
    {AddrOutput(ifs) : ifs \in SUBSET {IfLo, IfEth}}
    \cup {<<<<<<"1", ":">>, IfLo, Inet>>>>, <<<< >>>>,
          <<<<<<"1", ":">>, IfLo, <<"l", "i", "n", "k">>, AddrOf(IfLo)>>>>}

ParserKinds == {"mem", "cpu", "fs", "layouts", "load", "uptime", "netdev", "ipaddr"}

ParserInputs(k) ==
    CASE k = "mem" -> MemInputs
      [] k = "cpu" -> StatInputs
      [] k = "fs" -> DfInputs
      [] k = "layouts" -> LayoutInputs
      [] k = "load" -> LoadInputs
      [] k = "uptime" -> UptimeInputs
      [] k = "netdev" -> NetDevInputs
      [] k = "ipaddr" -> IPAddrInputs

InitParse ==
    /\ pKind \in ParserKinds
    /\ pIn \in ParserInputs(pKind)
    /\ pOut = << >>
    /\ pDone = FALSE
    /\ StatsIdle
    /\ MergeIdle
    /\ ConnIdle
    /\ RunIdle
    /\ EntryIdle
    /\ TuiIdle
    /\ PassIdle

\* The function applied to the input has returned out.
Applied(out) ==
    /\ pOut' = out
    /\ pDone' = TRUE
    /\ UNCHANGED <<pKind, pIn, statsVars, mergeVars, connVars, runVars, entryVars, tuiVars, passVars>>

\* GetMemInfo on the output, and Used on the MemInfo it returns.
ParseMemInfo ==
    /\ pKind = "mem"
    /\ ~pDone
    /\ LET ret == GetMemInfo(Executed(pIn))
       IN  Applied([ret |-> ret, used |-> Used(ret.val)])

ParseCPU ==
    /\ pKind = "cpu"
    /\ ~pDone
    /\ Applied(GetCPU(Executed(pIn)))

ParseFSInfos ==
    /\ pKind = "fs"
    /\ ~pDone
    /\ Applied(GetFSInfos(Executed(pIn), ExecFailed))

\* GetFSInfos on the two layouts of one entry, in the same context.
ParseLayouts ==
    /\ pKind = "layouts"
    /\ ~pDone
    /\ LET c == pIn.ctx
           e == pIn.entry
       IN  Applied([single |-> GetFSInfos(Executed(c.before \o OneLine(e) \o c.after), ExecFailed),
                    wrapped |-> GetFSInfos(Executed(c.before \o TwoLines(e) \o c.after), ExecFailed)])

ParseLoad ==
    /\ pKind = "load"
    /\ ~pDone
    /\ Applied(GetLoad(Executed(pIn)))

ParseUptime ==
    /\ pKind = "uptime"
    /\ ~pDone
    /\ Applied(GetUptime(Executed(pIn)))

ParseNetDevInfos ==
    /\ pKind = "netdev"
    /\ ~pDone
    /\ Applied(GetNetDevInfos(Executed(pIn)))

ParseNetIPAddrs ==
    /\ pKind = "ipaddr"
    /\ ~pDone
    /\ Applied(GetNetIPAddrs(Executed(pIn), ExecFailed))

NextParse ==
    \/ ParseMemInfo
    \/ ParseCPU
    \/ ParseFSInfos
    \/ ParseLayouts
    \/ ParseLoad
    \/ ParseUptime
    \/ ParseNetDevInfos
    \/ ParseNetIPAddrs

SpecParse == InitParse /\ [][NextParse]_vars

\* The number a uint64 of the model denotes is at least 2^63.
Huge(u) == u[4] >= LimbBase \div 2

\* C11: Used() never wraps around: it is Total - Free - Buffers - Cached when
\* that is not negative, and zero (saturation) when it is; never a huge positive
\* number.
C11_UsedDoesNotWrap ==
    (pKind = "mem" /\ pDone) =>
        LET m == pOut.ret.val
            d == m.Total - m.Free - m.Buffers - m.Cached
        IN  /\ pOut.used = ToUint64(IF d >= 0 THEN d ELSE 0)
            /\ ~Huge(pOut.used)

\* The nine percentages of a CPUInfo.
CPUFields == {"User", "Nice", "System", "Idle", "IOWait", "IRQ", "SoftIRQ", "Steal", "Guest"}

\* C12: when the total computed by GetCPU is zero (all counters zero, no
\* parsable counter, or no "cpu" line), the nine percentages are exactly 0; no
\* percentage is the result of a division by a zero total.
C12_ZeroTotalGivesZero ==
    (pKind = "cpu" /\ pDone) =>
        /\ \A f \in CPUFields : pOut.val[f].den # 0
        /\ CPUScan(pIn).Total = 0 => \A f \in CPUFields : pOut.val[f] = Float(0)

\* C13: on every command output, lines of any number of fields included, a
\* probe parser returns a value or an error and never indexes past the fields
\* of a line; the filesystem parser in particular never reads a column a short
\* line does not have.
C13_ParsersNeverPanic ==
    pDone =>
        CASE pKind = "mem" -> ~pOut.ret.panic
          [] pKind = "layouts" -> TRUE
          [] OTHER -> ~pOut.panic /\ pOut.err \in {"nil", "format", "parse"}

\* The two layouts give the same result: both the same value and error, and
\* neither a panic.
SameResult(a, b) == ~a.panic /\ ~b.panic /\ a.val = b.val /\ a.err = b.err

\* C14: a filesystem entry parses to the same FSInfo whether it is on one line
\* or has its device name on a line of its own; the column shift applies to the
\* line directly after the device-only line and to no later line.
C14_LayoutsAgree ==
    (pKind = "layouts" /\ pDone) =>
        /\ SameResult(pOut.single, pOut.wrapped)
        /\ LET after == GetFSInfos(Executed(pIn.ctx.after), ExecFailed).val
               n == Len(pOut.wrapped.val)
           IN  SubSeq(pOut.wrapped.val, n - Len(after) + 1, n) = after

(***************************************************************************)
(* The dashboard: Rendering over a bubbletea program                       *)
(*                                                                         *)
(* The program runs the command Init returns, delivers messages to Update  *)
(* one at a time, replaces the model by the one Update returns and runs    *)
(* the command it returns.  tea.Tick(d, fn) is a command that delivers one *)
(* message after d; tea.Quit ends the program.  A snapshot is identified   *)
(* by the state of the remote host it was harvested in.                    *)
(***************************************************************************)
\* The lines of the rendered template (render.go: TEMPLATE), as
\* viewport.SetContent splits them.
ContentLines == 20

\* The sizes the terminal can have.
WindowSizes ==
    {[Width |-> 80, Height |-> 24], [Width |-> 80, Height |-> 18], [Width |-> 40, Height |-> 12]}

MaxHostChanges == 2

\* Rendering.render: the text is a function of r.stats alone.
render(r) == r.stats

\* The largest offset the viewport scrolls to.
maxYOffset(v) == IF ContentLines > v.Height THEN ContentLines - v.Height ELSE 0

\* viewport.Model.SetContent
SetContent(v, text) == [v EXCEPT !.content = text]

\* run has harvested the first snapshot, NewRenderingState has built the model
\* with it, and the program has started: the tick command of Init is pending.
InitTui ==
    /\ rendering = [stats |-> 0, ready |-> FALSE, viewport |-> ZeroViewport]
    /\ program = [running |-> TRUE, tick |-> TRUE, ticks |-> 0, calls |-> 0]
    /\ hostState = 0
    /\ StatsIdle
    /\ MergeIdle
    /\ ConnIdle
    /\ RunIdle
    /\ ParseIdle
    /\ EntryIdle
    /\ PassIdle

\* The remote host changes: a harvest from now on yields another snapshot.
HostChanges ==
    /\ program.running
    /\ hostState < MaxHostChanges
    /\ hostState' = hostState + 1
    /\ UNCHANGED <<rendering, program, statsVars, mergeVars, connVars, runVars, parseVars, entryVars, passVars>>

\* Update(tickMsg): the interval has elapsed.  The content is rendered again
\* from r.stats; the command returned is nil, and getStatsFn is not called.
UpdateTick ==
    /\ program.running
    /\ program.tick
    /\ rendering' = IF rendering.ready
                    THEN [rendering EXCEPT !.viewport = SetContent(@, render(rendering))]
                    ELSE rendering
    /\ program' = [program EXCEPT !.tick = FALSE, !.ticks = @ + 1]
    /\ UNCHANGED <<hostState, statsVars, mergeVars, connVars, runVars, parseVars, entryVars, passVars>>

\* Update(tea.WindowSizeMsg): the first one creates the viewport and renders.
UpdateWindowSize ==
    /\ program.running
    /\ \E msg \in WindowSizes :
          rendering' =
              IF ~rendering.ready
              THEN [rendering EXCEPT
                      !.viewport = SetContent([Width |-> msg.Width, Height |-> msg.Height,
                                               YOffset |-> 0, content |-> 0 - 1],
                                              render(rendering)),
                      !.ready = TRUE]
              ELSE [rendering EXCEPT !.viewport.Width = msg.Width,
                                     !.viewport.Height = msg.Height]
    /\ UNCHANGED <<program, hostState, statsVars, mergeVars, connVars, runVars, parseVars, entryVars, passVars>>

\* Update(tea.KeyMsg) for "q", "esc", "ctrl+c": tea.Quit.
UpdateQuit ==
    /\ program.running
    /\ program' = [program EXCEPT !.running = FALSE]
    /\ UNCHANGED <<rendering, hostState, statsVars, mergeVars, connVars, runVars, parseVars, entryVars, passVars>>

\* Update(tea.KeyMsg) for another key: viewport.Update scrolls by one line on
\* "down" and "up" once the viewport exists (the zero viewport binds no key).
UpdateScroll ==
    /\ program.running
    /\ rendering.ready
    /\ \E key \in {"down", "up"} :
          LET v == rendering.viewport
              y == IF key = "down"
                   THEN (IF v.YOffset >= maxYOffset(v) THEN v.YOffset ELSE v.YOffset + 1)
                   ELSE (IF v.YOffset <= 0 THEN v.YOffset
                         ELSE IF v.YOffset - 1 > maxYOffset(v) THEN maxYOffset(v)
                         ELSE v.YOffset - 1)
          IN  rendering' = [rendering EXCEPT !.viewport.YOffset = y]
    /\ UNCHANGED <<program, hostState, statsVars, mergeVars, connVars, runVars, parseVars, entryVars, passVars>>

NextTui ==
    \/ HostChanges
    \/ UpdateTick
    \/ UpdateWindowSize
    \/ UpdateQuit
    \/ UpdateScroll

SpecTui == InitTui /\ [][NextTui]_vars

\* C15: while the dashboard runs, ticks recur (after a tick the next one is
\* pending), each tick has started a harvest, and the snapshot displayed is
\* replaced by the harvested one: once ticks have been handled after a change
\* of the host, the change is in the model.
C15_TickStartsHarvest ==
    (program.running /\ program.ticks > 0) =>
        /\ program.tick
        /\ program.calls >= program.ticks

(***************************************************************************)
(* readPass: the prompt, its signal channel and its goroutine              *)
(*                                                                         *)
(* sig.notify: the channel is registered with signal.Notify; sig.buf: the  *)
(* signals in its buffer (capacity 1); sig.sent: the signals the process   *)
(* has been sent.  A signal that arrives while the channel is registered   *)
(* is put in the buffer (dropped when it is full); one that arrives while  *)
(* it is not ends the process by the default disposition.  The goroutine   *)
(* is at "range" (receiving), "restore" (before terminal.Restore), "exit"  *)
(* (before os.Exit(2)) or "done".  term.echo is the echo flag of the       *)
(* terminal, on when readPass is entered.  sig.at and handler.got are      *)
(* history: where readPass was when the signal in the buffer arrived, and  *)
(* when the signal the goroutine received had arrived.                     *)
(***************************************************************************)
MaxSignals == 2

Alive == term.exit = "none"

InitPass ==
    /\ rpPc = [at |-> "getState", err |-> FALSE]
    /\ sig = [notify |-> FALSE, buf |-> 0, closed |-> FALSE, sent |-> 0, at |-> "none"]
    /\ handler = [pc |-> "none", quit |-> FALSE, got |-> "none"]
    /\ term = [echo |-> TRUE, exit |-> "none"]
    /\ StatsIdle
    /\ MergeIdle
    /\ ConnIdle
    /\ RunIdle
    /\ ParseIdle
    /\ EntryIdle
    /\ TuiIdle

\* tstate, err := terminal.GetState(0): on an error readPass returns at once.
GetState ==
    /\ Alive
    /\ rpPc.at = "getState"
    /\ \E ok \in BOOLEAN :
          rpPc' = IF ok THEN [rpPc EXCEPT !.at = "notify"]
                  ELSE [at |-> "returned", err |-> TRUE]
    /\ UNCHANGED <<sig, handler, term, statsVars, mergeVars, connVars, runVars, parseVars, entryVars, tuiVars>>

\* sig := make(chan os.Signal, 1); signal.Notify(sig, ...)
Notify ==
    /\ Alive
    /\ rpPc.at = "notify"
    /\ sig' = [sig EXCEPT !.notify = TRUE]
    /\ rpPc' = [rpPc EXCEPT !.at = "go"]
    /\ UNCHANGED <<handler, term, statsVars, mergeVars, connVars, runVars, parseVars, entryVars, tuiVars>>

\* go func() { ... }(): the goroutine starts at its range loop.
GoHandler ==
    /\ Alive
    /\ rpPc.at = "go"
    /\ handler' = [handler EXCEPT !.pc = "range"]
    /\ rpPc' = [rpPc EXCEPT !.at = "prompt"]
    /\ UNCHANGED <<sig, term, statsVars, mergeVars, connVars, runVars, parseVars, entryVars, tuiVars>>

\* The prompt is written and terminal.ReadPassword switches the echo off.
ReadPasswordStart ==
    /\ Alive
    /\ rpPc.at = "prompt"
    /\ term' = [term EXCEPT !.echo = FALSE]
    /\ rpPc' = [rpPc EXCEPT !.at = "reading"]
    /\ UNCHANGED <<sig, handler, statsVars, mergeVars, connVars, runVars, parseVars, entryVars, tuiVars>>

\* terminal.ReadPassword returns the line or an error, the echo switched back;
\* readPass returns, and its deferred functions start to run.
ReadPasswordReturn ==
    /\ Alive
    /\ rpPc.at = "reading"
    /\ term' = [term EXCEPT !.echo = TRUE]
    /\ \E failed \in BOOLEAN : rpPc' = [at |-> "stop", err |-> failed]
    /\ UNCHANGED <<sig, handler, statsVars, mergeVars, connVars, runVars, parseVars, entryVars, tuiVars>>

\* deferred: signal.Stop(sig)
DeferStop ==
    /\ Alive
    /\ rpPc.at = "stop"
    /\ sig' = [sig EXCEPT !.notify = FALSE]
    /\ rpPc' = [rpPc EXCEPT !.at = "close"]
    /\ UNCHANGED <<handler, term, statsVars, mergeVars, connVars, runVars, parseVars, entryVars, tuiVars>>

\* deferred: close(sig); readPass has returned to its caller.
DeferClose ==
    /\ Alive
    /\ rpPc.at = "close"
    /\ sig' = [sig EXCEPT !.closed = TRUE]
    /\ rpPc' = [rpPc EXCEPT !.at = "returned"]
    /\ UNCHANGED <<handler, term, statsVars, mergeVars, connVars, runVars, parseVars, entryVars, tuiVars>>

\* An interrupt, terminate or quit signal is sent to the process.
Signal ==
    /\ Alive
    /\ sig.sent < MaxSignals
    /\ IF sig.notify
       THEN /\ sig' = IF sig.buf = 0
                      THEN [sig EXCEPT !.sent = @ + 1, !.buf = 1, !.at = rpPc.at]
                      ELSE [sig EXCEPT !.sent = @ + 1]
            /\ UNCHANGED term
       ELSE /\ sig' = [sig EXCEPT !.sent = @ + 1]
            /\ term' = [term EXCEPT !.exit = "signal"]
    /\ UNCHANGED <<rpPc, handler, statsVars, mergeVars, connVars, runVars, parseVars, entryVars, tuiVars>>

\* "for range sig": a signal is received, from the buffer also after the close.
HandlerReceive ==
    /\ Alive
    /\ handler.pc = "range"
    /\ sig.buf > 0
    /\ sig' = [sig EXCEPT !.buf = @ - 1]
    /\ handler' = [pc |-> "restore", quit |-> TRUE, got |-> sig.at]
    /\ UNCHANGED <<rpPc, term, statsVars, mergeVars, connVars, runVars, parseVars, entryVars, tuiVars>>

\* "for range sig" ends: the channel is closed and empty.
HandlerRangeEnds ==
    /\ Alive
    /\ handler.pc = "range"
    /\ sig.buf = 0
    /\ sig.closed
    /\ handler' = [handler EXCEPT !.pc = "restore"]
    /\ UNCHANGED <<rpPc, sig, term, statsVars, mergeVars, connVars, runVars, parseVars, entryVars, tuiVars>>

\* terminal.Restore(0, tstate)
HandlerRestore ==
    /\ Alive
    /\ handler.pc = "restore"
    /\ term' = [term EXCEPT !.echo = TRUE]
    /\ handler' = [handler EXCEPT !.pc = IF handler.quit THEN "exit" ELSE "done"]
    /\ UNCHANGED <<rpPc, sig, statsVars, mergeVars, connVars, runVars, parseVars, entryVars, tuiVars>>

\* if quit { fmt.Println(); os.Exit(2) }
HandlerExit ==
    /\ Alive
    /\ handler.pc = "exit"
    /\ term' = [term EXCEPT !.exit = "handler"]
    /\ UNCHANGED <<rpPc, sig, handler, statsVars, mergeVars, connVars, runVars, parseVars, entryVars, tuiVars>>

NextPass ==
    \/ GetState
    \/ Notify
    \/ GoHandler
    \/ ReadPasswordStart
    \/ ReadPasswordReturn
    \/ DeferStop
    \/ DeferClose
    \/ Signal
    \/ HandlerReceive
    \/ HandlerRangeEnds
    \/ HandlerRestore
    \/ HandlerExit

SpecPass == InitPass /\ [][NextPass]_vars

\* C16: the handler is active for the duration of readPass only.  When a
\* signal received while the prompt waits ends the process, the terminal has
\* been restored; once readPass has returned, by success or by a read error,
\* the channel is no longer registered and the handler does not end the
\* process.
C16_HandlerScopedToPrompt ==
    /\ (term.exit = "handler" /\ handler.got = "reading") => term.echo
    /\ rpPc.at = "returned" => (~sig.notify /\ term.exit # "handler")

(***************************************************************************)
(* GetSshEntry called several times on the same table and alias            *)
(***************************************************************************)
MaxRuns == 2

InitEntry ==
    /\ eTable \in {TableOf(t) : t \in AliasTables}
    /\ eName \in {HostWeb, HostWax, HostDb}
    /\ eRuns = << >>
    /\ StatsIdle
    /\ MergeIdle
    /\ ConnIdle
    /\ RunIdle
    /\ ParseIdle
    /\ TuiIdle
    /\ PassIdle

\* host, port, user, keyfile := GetSshEntry(name), in one more run of the program.
CallGetSshEntry ==
    /\ Len(eRuns) < MaxRuns
    /\ \E r \in GetSshEntry(eTable, eName) : eRuns' = Append(eRuns, r)
    /\ UNCHANGED <<eTable, eName, statsVars, mergeVars, connVars, runVars, parseVars, tuiVars, passVars>>

NextEntry == CallGetSshEntry

SpecEntry == InitEntry /\ [][NextEntry]_vars

\* C17: for a fixed table and a fixed alias GetSshEntry always returns the same
\* host, port, user and identity file, also when several patterns match.
C17_SameEntryEveryRun ==
    \A i, j \in 1..Len(eRuns) : eRuns[i] = eRuns[j]

(***************************************************************************)
(* The positional argument of run                                          *)
(***************************************************************************)
\* The parts of an argument [user@]host[:port] as the user wrote them: the user
\* (empty when there is no "@"), the host, and the text after the ":" (empty
\* when there is none).
Written(addr) ==
    LET i == Index(addr, "@")
        rest == IF i = -1 THEN addr ELSE SubSeq(addr, i + 2, Len(addr))
        c == Index(rest, ":")
    IN  [user |-> IF i = -1 THEN EmptyStr ELSE SubSeq(addr, 1, i),
         host |-> IF c = -1 THEN rest ELSE SubSeq(rest, 1, c),
         hasPort |-> c # -1,
         port |-> IF c = -1 THEN EmptyStr ELSE SubSeq(rest, c + 2, Len(rest))]

\* C18: for an argument host, host:port, user@host or user@host:port,
\* parseAddrAsUserHostAddrPort returns the host, the user (empty when absent)
\* and the port (0 when absent) that were written; a port that is not a number
\* or not in 1..65535 is an error.
C18_ParsesWhatWasWritten ==
    LET w == Written(args.addr)
        p == Atoi(w.port)
        bad == w.hasPort /\ (~p.ok \/ p.val < 1 \/ p.val >= MaxPort)
    IN  rPc # "parse" =>
            IF bad THEN rPc = "error"
            ELSE /\ parsed.username = w.user
                 /\ parsed.host = w.host
                 /\ parsed.port = (IF w.hasPort THEN p.val ELSE 0)

(***************************************************************************)
(* GetStats on a client made by New with any worker option                 *)
(***************************************************************************)
\* The values WithWorkers can be given: negative, zero (unset) and positive.
WorkerOptions == (0 - 1)..MaxWorkers

\* runtime.NumCPU()
NumCPUs == 1..MaxWorkers

\* client.New: the worker count of the client, for the option w on a machine
\* with n logical CPUs.
New(w, n) == IF w = 0 THEN n ELSE w

InitConfigured ==
    /\ workers \in {New(w, n) : w \in WorkerOptions, n \in NumCPUs}
    /\ remote \in RemoteHosts
    /\ pc = "go"
    /\ next = 1
    /\ st = [p \in ProbeSet |-> "pending"]
    /\ sem = 0
    /\ wg = 0
    /\ errs = {}
    /\ loc = ZeroLocals
    /\ produced = ZeroLocals
    /\ stats = ZeroStats
    /\ err = "nil"
    /\ MergeIdle
    /\ ConnIdle
    /\ RunIdle
    /\ AuxIdle

\* The goroutine of GetStats goes on whenever it can, and every remote command
\* returns.
FairStats ==
    /\ WF_vars(Go)
    /\ WF_vars(Wait)
    /\ WF_vars(MergeAndReturn)
    /\ \A p \in ProbeSet : WF_vars(ExecPrimary(p)) /\ WF_vars(ExecFallback(p))

SpecConfigured == InitConfigured /\ [][NextStats]_vars /\ FairStats

\* C19: for every worker limit WithWorkers can set, GetStats eventually returns
\* when every remote command eventually returns.
C19_GetStatsReturns == <>(pc = "returned")

====
